---- MODULE Spec2Model ----
(***************************************************************************)
(* A model of espn_tables/espn_tables.py: header resolution                *)
(* (League._parseHeaders), the table formatters (standings, draft, active  *)
(* stats, transactions) and draft assembly (League._downloadDraftTable).   *)
(*                                                                         *)
(* Text is modelled as a sequence of one-character strings, so slicing,    *)
(* joining, numeric parsing and the regular expressions of the source are  *)
(* computed on characters.  NBSP stands for the character u'\xa0'.         *)
(* A pandas DataFrame is a record [cols, rows]: cols the ordered column    *)
(* labels, rows the ordered rows, each [label, cells] with cells parallel  *)
(* to cols.  A call that raises is the record Raised(<exception name>).    *)
(***************************************************************************)
EXTENDS Integers, Sequences, FiniteSets, TLC

VARIABLES
    pc,          \* position of the caller: which call comes next
    table,       \* the <table> element handed to _parseHeaders
    subHead1,    \* _parseHeaders local: the first resolved sub-header row
    subHeadRow,  \* _parseHeaders local: the last resolved sub-header row
    noname,      \* _parseHeaders local: the synthetic-name counter
    columns,     \* _parseHeaders result: the merged column list
    df,          \* the DataFrame object handed to a formatter (mutated in place)
    raw,         \* the DataFrame as it was parsed, before any formatter ran
    ret1,        \* what the first formatting call returned
    ret2,        \* what the second formatting call on the same object returned
    draftType,   \* the draft type read from the "Draft Recap" page
    teamId,      \* the teamId argument of _downloadDraftTable ("" for None)
    draftTables, \* the tables of the "Draft Recap" page, as read_html parses them
    draftTable   \* what _downloadDraftTable yielded

vars == <<pc, table, subHead1, subHeadRow, noname, columns, df, raw, ret1, ret2,
          draftType, teamId, draftTables, draftTable>>

hdrVars == <<subHead1, subHeadRow, noname, columns>>

draftVars == <<draftType, teamId, draftTables, draftTable>>

(***************************************************************************)
(* Bounds of the model.                                                    *)
(***************************************************************************)
MaxTds == 3          \* <td> cells per sub-header row (header specification)

StandingsMaxTds == 6 \* <td> cells per sub-header row (standings specification)

MaxPicks == 2        \* data rows of one draft block

MaxDraftTables == 2  \* blocks on the "Draft Recap" page

MaxPlayers == 2      \* player rows of an active-stats table (before its footer)

MaxTx == 2           \* rows of a transaction table

MaxRows == 1         \* body rows of a standings table

(***************************************************************************)
(* Python helpers.                                                         *)
(***************************************************************************)
SeqsUpTo(S, n) == UNION {[1..k -> S] : k \in 0..n}

Min(a, b) == IF a < b THEN a ELSE b

Max(a, b) == IF a > b THEN a ELSE b

\* s[k:]  (k may be negative; -0 is 0, so s[-0:] is the whole list)
PyFrom(s, k) ==
    LET start == IF k < 0 THEN Max(Len(s) + k, 0) ELSE Min(k, Len(s))
    IN  SubSeq(s, start + 1, Len(s))

\* s[:k]
PyTo(s, k) ==
    LET stop == IF k < 0 THEN Max(Len(s) + k, 0) ELSE Min(k, Len(s))
    IN  SubSeq(s, 1, stop)

\* n * [x]
Repeat(x, n) == [i \in 1..n |-> x]

\* sep.join(parts)
RECURSIVE Join(_, _)
Join(sep, parts) ==
    IF parts = <<>> THEN <<>>
    ELSE IF Len(parts) = 1 THEN parts[1]
    ELSE parts[1] \o sep \o Join(sep, Tail(parts))

\* the concatenation of a list of lists
RECURSIVE Flatten(_)
Flatten(ls) == IF ls = <<>> THEN <<>> ELSE ls[1] \o Flatten(Tail(ls))

DigitChars == <<"0", "1", "2", "3", "4", "5", "6", "7", "8", "9">>

IsDigit(c) == \E d \in 1..10 : DigitChars[d] = c

\* str(n) for a non-negative int
RECURSIVE Digits(_)
Digits(n) ==
    IF n < 10 THEN <<DigitChars[n + 1]>>
    ELSE Digits(n \div 10) \o <<DigitChars[(n % 10) + 1]>>

\* A column label is a Python int (a synthetic name) or a string.
IntName(n) == [isInt |-> TRUE, n |-> n, s |-> <<>>]

StrName(s) == [isInt |-> FALSE, n |-> 0, s |-> s]

\* str(x) of a column label
PyStr(x) == IF x.isInt THEN Digits(x.n) ELSE x.s

NBSP == "nbsp"  \* the one character u'\xa0'

LowerChars == <<"a", "b", "c", "d", "e", "f", "g", "h", "i", "j", "k", "l", "m",
                "n", "o", "p", "q", "r", "s", "t", "u", "v", "w", "x", "y", "z">>

UpperChars == <<"A", "B", "C", "D", "E", "F", "G", "H", "I", "J", "K", "L", "M",
                "N", "O", "P", "Q", "R", "S", "T", "U", "V", "W", "X", "Y", "Z">>

\* \w without re.UNICODE: [a-zA-Z0-9_]
IsWord(c) ==
    \/ \E i \in 1..26 : LowerChars[i] = c \/ UpperChars[i] = c
    \/ IsDigit(c)
    \/ c = "_"

\* s.upper()
Upper(s) ==
    [i \in 1..Len(s) |->
        IF \E k \in 1..26 : LowerChars[k] = s[i]
        THEN UpperChars[CHOOSE k \in 1..26 : LowerChars[k] = s[i]]
        ELSE s[i]]

\* int(s) for a string of digits
RECURSIVE ParseInt(_)
ParseInt(s) ==
    IF s = <<>> THEN 0
    ELSE 10 * ParseInt(SubSeq(s, 1, Len(s) - 1))
         + ((CHOOSE d \in 1..10 : DigitChars[d] = s[Len(s)]) - 1)

AllDigits(s) == \A i \in 1..Len(s) : IsDigit(s[i])

\* What a call yields: a DataFrame, an exception, or None.
\* A DataFrame: cols the column labels, dtypes their dtypes ("object" or
\* "number"), rows the rows in order, each [label, cells].
Frame(cols, dtypes, rows) ==
    [kind |-> "frame", err |-> "", cols |-> cols, dtypes |-> dtypes, rows |-> rows]

Raised(e) == [kind |-> "raised", err |-> e, cols |-> <<>>, dtypes |-> <<>>, rows |-> <<>>]

PyNone == [kind |-> "None", err |-> "", cols |-> <<>>, dtypes |-> <<>>, rows |-> <<>>]

\* no call made yet
NoFrame == [kind |-> "unset", err |-> "", cols |-> <<>>, dtypes |-> <<>>, rows |-> <<>>]

\* pd.DataFrame()
EmptyFrame == Frame(<<>>, <<>>, <<>>)

IsFrame(x) == x.kind = "frame"

\* A cell value: a string, a number, a boolean, a list of strings, or NaN.
Str(s) == [t |-> "str", s |-> s, n |-> 0, l |-> <<>>]

Num(n) == [t |-> "num", s |-> <<>>, n |-> n, l |-> <<>>]

Bool(b) == [t |-> "bool", s |-> <<>>, n |-> IF b THEN 1 ELSE 0, l |-> <<>>]

List(l) == [t |-> "list", s |-> <<>>, n |-> 0, l |-> l]

NaN == [t |-> "nan", s |-> <<>>, n |-> 0, l |-> <<>>]

(***************************************************************************)
(* League._parseHeaders.  A <td> is [texts, colspan]: its text nodes and   *)
(* its colspan attribute (0: the attribute is absent).                     *)
(***************************************************************************)
Td(texts, colspan) == [texts |-> texts, colspan |-> colspan]

\* ScanRow with the counter left alone after a group title (line 206 missing)
RECURSIVE ScanRowSharedCounter(_, _, _)
ScanRowSharedCounter(tds, row, nn) ==
    IF tds = <<>> THEN [row |-> row, noname |-> nn]
    ELSE LET td == tds[1] IN
         IF td.texts = <<>>
         THEN ScanRowSharedCounter(Tail(tds), row \o <<IntName(nn)>>, nn + 1)
         ELSE IF td.colspan # 0
         THEN ScanRowSharedCounter(Tail(tds),
                                   row \o Repeat(IntName(nn), td.colspan), nn)
         ELSE ScanRowSharedCounter(Tail(tds),
                                   row \o <<StrName(Join(<<" ">>, td.texts))>>, nn)

\* one pass of the loop over the cells of a sub-header row
RECURSIVE ScanRow(_, _, _)
ScanRow(tds, row, nn) ==
    IF tds = <<>> THEN [row |-> row, noname |-> nn]
    ELSE LET td == tds[1] IN
         IF td.texts = <<>>
         THEN ScanRow(Tail(tds), row \o <<IntName(nn)>>, nn + 1)
         ELSE IF td.colspan # 0
         THEN ScanRow(Tail(tds), row \o Repeat(IntName(nn), td.colspan), nn + 1)
         ELSE ScanRow(Tail(tds), row \o <<StrName(Join(<<" ">>, td.texts))>>, nn)

\* columns = subHead1[:2] + subHeadRow + subHead1[-n:]
MergeSubHeads(sh1, sh2) ==
    LET n == Len(sh1) - 2 - Len(sh2)
    IN  PyTo(sh1, 2) \o sh2 \o PyFrom(sh1, -n)

FirstNoname == 10

ParseHeaders(subHeads) ==
    IF Len(subHeads) > 2
    THEN [err |-> "AssertionError", subHead1 |-> <<>>, subHeadRow |-> <<>>,
          noname |-> FirstNoname, columns |-> <<>>]
    ELSE IF Len(subHeads) = 2
    THEN LET r1 == ScanRow(subHeads[1], <<>>, FirstNoname)
             r2 == ScanRow(subHeads[2], <<>>, r1.noname)
         IN  [err |-> "", subHead1 |-> r1.row, subHeadRow |-> r2.row,
              noname |-> r2.noname, columns |-> MergeSubHeads(r1.row, r2.row)]
    ELSE IF Len(subHeads) = 0
    THEN [err |-> "IndexError", subHead1 |-> <<>>, subHeadRow |-> <<>>,
          noname |-> FirstNoname, columns |-> <<>>]
    ELSE [err |-> "", subHead1 |-> <<>>, subHeadRow |-> <<>>,
          noname |-> FirstNoname,
          columns |-> Flatten([i \in 1..Len(subHeads[1]) |->
                       [j \in 1..Len(subHeads[1][i].texts) |->
                          StrName(subHeads[1][i].texts[j])]])]

(***************************************************************************)
(* Header specification: every table with up to two sub-header rows of up  *)
(* to MaxTds cells, each cell padding, a group title with a colspan, or a  *)
(* named column.                                                           *)
(***************************************************************************)
TextW == <<"W">>

TextG == <<"G">>

TextB == <<"B">>

Colspans == {0, 2}

\* padding, padding with a colspan, a name in two text nodes, a group title
HeaderTds == {Td(t, c) : t \in {<<>>, <<TextG, TextB>>}, c \in Colspans}

NoTable == [subHeads |-> <<>>, body |-> <<>>]

InitHeader ==
    /\ pc = "parse"
    /\ \E sh \in SeqsUpTo(SeqsUpTo(HeaderTds, MaxTds), 2) :
          table = [subHeads |-> sh, body |-> <<>>]
    /\ subHead1 = <<>>
    /\ subHeadRow = <<>>
    /\ noname = FirstNoname
    /\ columns = <<>>
    /\ df = NoFrame
    /\ raw = NoFrame
    /\ ret1 = NoFrame
    /\ ret2 = NoFrame
    /\ draftType = ""
    /\ teamId = ""
    /\ draftTables = <<>>
    /\ draftTable = NoFrame

\* head, columns = self._parseHeaders(table)
CallParseHeaders ==
    /\ pc = "parse"
    /\ LET r == ParseHeaders(table.subHeads) IN
        /\ subHead1' = r.subHead1
        /\ subHeadRow' = r.subHeadRow
        /\ noname' = r.noname
        /\ columns' = r.columns
        /\ pc' = IF r.err = "" THEN "parsed" ELSE r.err
    /\ UNCHANGED <<table, df, raw, ret1, ret2, draftVars>>

NextHeader == CallParseHeaders

SpecHeader == InitHeader /\ [][NextHeader]_vars

(***************************************************************************)
(* Properties of header resolution.                                        *)
(***************************************************************************)
TwoRowsParsed == pc = "parsed" /\ Len(table.subHeads) = 2

\* N = L1 - 2 - L2
MergeN == Len(subHead1) - 2 - Len(subHeadRow)

SynNames(row) == {row[i].n : i \in {j \in DOMAIN row : row[j].isInt}}

SynCount(row) == Cardinality({i \in DOMAIN row : row[i].isInt})

NoRepeatedSyn(row) ==
    \A i, j \in DOMAIN row : (row[i].isInt /\ row[j].isInt /\ i # j) => row[i] # row[j]

DistinctTexts(row) ==
    \A i, j \in DOMAIN row : (~row[i].isInt /\ ~row[j].isInt /\ i # j) => row[i] # row[j]

\* the cells of a sub-header row that are given a synthetic name
Placeholders(tds) == {i \in DOMAIN tds : tds[i].texts = <<>> \/ tds[i].colspan # 0}

\* the cells that are group titles: text and a colspan
GroupTitles(tds) == {i \in DOMAIN tds : tds[i].texts # <<>> /\ tds[i].colspan # 0}

RECURSIVE SumSpans(_, _)
SumSpans(tds, S) ==
    IF S = {} THEN 0
    ELSE LET i == CHOOSE x \in S : TRUE
         IN  tds[i].colspan + SumSpans(tds, S \ {i})

\* C1: in a two-row header the merged column list row1[:2] + row2 + row1[-N:]
\* has exactly L1 entries, N = 0 included.  Stated for N >= 0, where a list of
\* L1 entries holding row1[:2] and all of row 2 exists.
C1_MergedCountIsL1 == (TwoRowsParsed /\ MergeN >= 0) => Len(columns) = Len(subHead1)

Val == Str(<<"v">>)

\* re.search('1\d', s)
Search1d(s) == \E i \in 1..(Len(s) - 1) : s[i] = "1" /\ IsDigit(s[i + 1])

\* the positions from i on where the boolean mask holds, in order
RECURSIVE TrueIdx(_, _)
TrueIdx(mask, i) ==
    IF i > Len(mask) THEN <<>>
    ELSE (IF mask[i] THEN <<i>> ELSE <<>>) \o TrueIdx(mask, i + 1)

\* the positions of s that satisfy Keep, in order
KeepIdx(s, Keep(_)) == TrueIdx([i \in 1..Len(s) |-> Keep(s[i])], 1)

Pick(s, idx) == [k \in 1..Len(idx) |-> s[idx[k]]]

\* df.select(crit, axis=1): a new frame of the columns whose label passes
SelectCols(d, Crit(_)) ==
    LET idx == KeepIdx(d.cols, Crit)
    IN  Frame(Pick(d.cols, idx), Pick(d.dtypes, idx),
              [r \in 1..Len(d.rows) |->
                 [label |-> d.rows[r].label, cells |-> Pick(d.rows[r].cells, idx)]])

\* df.drop(labels, inplace=True) for labels that are all present
DropRows(d, Gone(_)) ==
    LET NotGone(r) == ~Gone(r)
    IN  [d EXCEPT !.rows = Pick(d.rows, KeepIdx(d.rows, NotGone))]

StandingsKeep(x) == ~Search1d(PyStr(x))

\* the frame object after the call, and what the call returns
FormatStandingsTable(d, cols) ==
    IF Len(cols) # Len(d.cols)
    THEN [df |-> d, ret |-> Raised("ValueError")]
    ELSE LET d1 == [d EXCEPT !.cols = cols] IN
         IF Len(cols) = 0
         THEN [df |-> d1, ret |-> Raised("IndexError")]
         ELSE LET FirstNull(r) == r.cells[1] = NaN
                  d2 == DropRows(d1, FirstNull)
              IN  [df |-> d2, ret |-> SelectCols(d2, StandingsKeep)]

(***************************************************************************)
(* Standings specification: _downloadStandingsTable on one table, then the *)
(* formatter once more on the same frame object.                           *)
(***************************************************************************)
StandingsTds == {Td(<<>>, 0), Td(<<TextW>>, 0)}

\* pd.read_html(...)[0]: integer column labels, integer row labels
ReadBody(body, width) ==
    Frame([c \in 1..width |-> IntName(c - 1)],
          [c \in 1..width |-> "object"],
          [r \in 1..Len(body) |->
             [label |-> r - 1,
              cells |-> [c \in 1..width |-> IF c = 1 THEN body[r] ELSE Val]]])

\* the body is as wide as the first sub-header row, or as the merged list
InitStandings ==
    /\ pc = "parse"
    /\ \E r1 \in SeqsUpTo(StandingsTds, StandingsMaxTds),
          r2 \in SeqsUpTo(StandingsTds, StandingsMaxTds),
          body \in SeqsUpTo({NaN, Val}, MaxRows) :
          \E w \in {Len(r1), Len(ParseHeaders(<<r1, r2>>).columns)} :
             /\ table = [subHeads |-> <<r1, r2>>, body |-> body]
             /\ raw = ReadBody(body, w)
    /\ df = raw
    /\ subHead1 = <<>>
    /\ subHeadRow = <<>>
    /\ noname = FirstNoname
    /\ columns = <<>>
    /\ ret1 = NoFrame
    /\ ret2 = NoFrame
    /\ draftType = ""
    /\ teamId = ""
    /\ draftTables = <<>>
    /\ draftTable = NoFrame

\* dfs.append(self._formatStandingsTable(df, columns))
CallFormatStandings ==
    /\ pc = "parsed"
    /\ LET r == FormatStandingsTable(df, columns) IN
        /\ df' = r.df
        /\ ret1' = r.ret
    /\ pc' = "formatted1"
    /\ UNCHANGED <<table, hdrVars, raw, ret2, draftVars>>

\* self._formatStandingsTable(df, columns) again, on the same frame object
CallFormatStandingsAgain ==
    /\ pc = "formatted1"
    /\ LET r == FormatStandingsTable(df, columns) IN
        /\ df' = r.df
        /\ ret2' = r.ret
    /\ pc' = "formatted2"
    /\ UNCHANGED <<table, hdrVars, raw, ret1, draftVars>>

NextStandings ==
    \/ CallParseHeaders
    \/ CallFormatStandings
    \/ CallFormatStandingsAgain

SpecStandings == InitStandings /\ [][NextStandings]_vars

\* C10: standings formatting drops every synthetic placeholder column that
\* header resolution generated, whatever the counter value, and drops no
\* column with a real text name.
C10_DropsExactlySynthetic ==
    (pc = "formatted1" /\ IsFrame(ret1)) =>
        /\ \A i \in DOMAIN ret1.cols : ~ret1.cols[i].isInt
        /\ \A i \in DOMAIN columns :
              ~columns[i].isInt => \E j \in DOMAIN ret1.cols : ret1.cols[j] = columns[i]

(***************************************************************************)
(* DataFrame operations used by the draft and stats formatters.            *)
(***************************************************************************)
HasCol(d, name) == \E i \in DOMAIN d.cols : d.cols[i] = name

ColIdx(d, name) == CHOOSE i \in DOMAIN d.cols : d.cols[i] = name

HasRow(d, label) == \E r \in DOMAIN d.rows : d.rows[r].label = label

\* df[name]: the cells of a column, in row order
Column(d, name) == [r \in 1..Len(d.rows) |-> d.rows[r].cells[ColIdx(d, name)]]

\* df[name] = vals: overwrite the column, or append it
SetCol(d, name, dtype, vals) ==
    IF HasCol(d, name)
    THEN LET c == ColIdx(d, name) IN
         [d EXCEPT !.dtypes[c] = dtype,
                   !.rows = [r \in 1..Len(d.rows) |->
                               [d.rows[r] EXCEPT !.cells[c] = vals[r]]]]
    ELSE [d EXCEPT !.cols = Append(d.cols, name),
                   !.dtypes = Append(d.dtypes, dtype),
                   !.rows = [r \in 1..Len(d.rows) |->
                               [d.rows[r] EXCEPT !.cells = Append(@, vals[r])]]]

\* df[[names]]: a new frame of the named columns, in the order given
SelectNamed(d, names) ==
    IF \E k \in DOMAIN names : ~HasCol(d, names[k])
    THEN Raised("KeyError")
    ELSE LET idx == [k \in 1..Len(names) |-> ColIdx(d, names[k])]
         IN  Frame(names, Pick(d.dtypes, idx),
                   [r \in 1..Len(d.rows) |->
                      [label |-> d.rows[r].label, cells |-> Pick(d.rows[r].cells, idx)]])

\* pd.to_numeric of one value: a number, NaN, or a string of digits
CanNumeric(v) == v.t \in {"num", "nan"} \/ (v.t = "str" /\ AllDigits(v.s))

ToNumeric(v) ==
    IF v.t = "str" THEN (IF v.s = <<>> THEN NaN ELSE Num(ParseInt(v.s))) ELSE v

Col0 == IntName(0)

Col1 == IntName(1)

Col2 == IntName(2)

cMANAGER == StrName(<<"M", "A", "N", "A", "G", "E", "R">>)

cPLAYER == StrName(<<"P", "L", "A", "Y", "E", "R">>)

cPICK == StrName(<<"P", "I", "C", "K">>)

cTEAM == StrName(<<"T", "E", "A", "M">>)

cPOS == StrName(<<"P", "O", "S">>)

cPRICE == StrName(<<"P", "R", "I", "C", "E">>)

cKEEPER == StrName(<<"K", "E", "E", "P", "E", "R">>)

cROUND == StrName(<<"R", "O", "U", "N", "D">>)

(***************************************************************************)
(* The Player/Team/Position/Keeper pattern of _formatAuctionDraftTable:    *)
(*   (?P<PLAYER>.+?), (?P<TEAM>\w+)\xa0(?P<POS>\w+)(?P<KEEPER>\xa0\xa0K$|$) *)
(* searched in s.  \w+ is followed by a non-word character or the end, so  *)
(* each \w+ takes its whole run of word characters; .+? takes the shortest *)
(* prefix that lets the rest match, and the search starts at the first     *)
(* character whenever it can start anywhere.                               *)
(***************************************************************************)
\* the last position of the run of word characters that starts at i (i - 1: none)
RECURSIVE WordRunEnd(_, _)
WordRunEnd(s, i) ==
    IF i <= Len(s) /\ IsWord(s[i]) THEN WordRunEnd(s, i + 1) ELSE i - 1

KeeperMark == <<NBSP, NBSP, "K">>

\* \xa0, POS and the KEEPER alternative, POS being s[p..f]
KeeperPosTail(s, p, f) ==
    /\ p - 1 <= Len(s) /\ s[p - 1] = NBSP
    /\ f >= p
    /\ (f = Len(s) \/ SubSeq(s, f + 1, Len(s)) = KeeperMark)

\* TEAM being s[t..e], and the rest of the pattern
KeeperTeamTail(s, t, e) == e >= t /\ KeeperPosTail(s, e + 2, WordRunEnd(s, e + 2))

\* the pattern from ", " at position a on
KeeperTail(s, a) ==
    /\ a + 1 <= Len(s) /\ s[a] = "," /\ s[a + 1] = " "
    /\ KeeperTeamTail(s, a + 2, WordRunEnd(s, a + 2))

KeeperCommas(s) == {a \in 2..Len(s) : KeeperTail(s, a)}

NoMatch == <<NaN, NaN, NaN, NaN>>

\* the groups of the match whose TEAM is s[t..e] and whose POS ends at f
KeeperGroups(s, t, e, f) ==
    <<Str(SubSeq(s, 1, t - 3)), Str(SubSeq(s, t, e)),
      Str(SubSeq(s, e + 2, f)), Str(SubSeq(s, f + 1, Len(s)))>>

KeeperGroupsFrom(s, t, e) == KeeperGroups(s, t, e, WordRunEnd(s, e + 2))

KeeperGroupsAt(s, a) == KeeperGroupsFrom(s, a + 2, WordRunEnd(s, a + 2))

\* the shortest PLAYER: the first ", " from which the rest matches
FirstComma(S) == CHOOSE x \in S : \A y \in S : x <= y

KeeperMatch(s, commas) ==
    IF commas = {} THEN NoMatch ELSE KeeperGroupsAt(s, FirstComma(commas))

\* the four groups of the first match in a cell, or four NaN
KeeperExtract(v) ==
    IF v.t # "str" THEN NoMatch ELSE KeeperMatch(v.s, KeeperCommas(v.s))

\* lines 61-62: the marker becomes True, a falsy value ('') becomes False
KeeperFlag(v) ==
    IF v = Str(KeeperMark) THEN Bool(TRUE)
    ELSE IF v = Str(<<>>) THEN Bool(FALSE)
    ELSE v

\* df.join(df[1].str.extract(reStr, expand=True)), in the frame's row order
JoinExtract(d, names, groups) ==
    [d EXCEPT !.cols = @ \o names,
              !.dtypes = @ \o [k \in 1..Len(names) |-> "object"],
              !.rows = [r \in 1..Len(d.rows) |->
                          [d.rows[r] EXCEPT !.cells = @ \o groups[r]]]]

\* df.drop(names, axis=1) of labels that are all present
DropCols(d, names) ==
    LET Kept(x) == \A k \in DOMAIN names : names[k] # x
    IN  SelectCols(d, Kept)

\* the KEEPER group of a row replaced by its flag
KeeperRow(g) == <<g[1], g[2], g[3], KeeperFlag(g[4])>>

ExtractNames == <<cPLAYER, cTEAM, cPOS, cKEEPER>>

\* League._formatAuctionDraftTable (the frame passed in is left as it was)
FormatAuctionDraftTable(d) ==
    IF ~HasCol(d, Col1) THEN Raised("KeyError")
    ELSE IF d.dtypes[ColIdx(d, Col1)] # "object" THEN Raised("AttributeError")
    ELSE IF \E k \in 1..4 : HasCol(d, ExtractNames[k]) THEN Raised("ValueError")
    ELSE IF ~HasCol(d, Col0) \/ ~HasCol(d, Col2) THEN Raised("ValueError")
    ELSE DropCols(JoinExtract(d, ExtractNames,
                              [r \in 1..Len(d.rows) |->
                                 KeeperRow(KeeperExtract(
                                     d.rows[r].cells[ColIdx(d, Col1)]))]),
                  <<Col0, Col1, Col2>>)

AuctionCols == <<cMANAGER, cPLAYER, cPICK, cTEAM, cPOS, cPRICE, cKEEPER>>

DraftCols == <<cROUND, cPICK, cMANAGER, cPLAYER, cTEAM, cPOS, cKEEPER>>

DtypeOf(v) == IF v.t \in {"num", "nan"} THEN "number" ELSE "object"

\* the row labelled 0
Row0(d) == CHOOSE r \in {d.rows[i] : i \in DOMAIN d.rows} : r.label = 0

\* df[1].ix[0]: the carrier row's second cell
CarrierCellCol1(d) == Row0(d).cells[ColIdx(d, Col1)]

\* manager = df[0].ix[0]
CarrierCell(d) == Row0(d).cells[ColIdx(d, Col0)]

\* lines 77-78: the seven columns, in order
AuctionSelect(d4, r5) ==
    [df |-> d4, ret |-> IF IsFrame(r5) THEN SelectNamed(r5, AuctionCols) ELSE r5]

\* lines 76-78, on the frame with MANAGER, PICK and PRICE set
AuctionExtract(d4) == AuctionSelect(d4, FormatAuctionDraftTable(d4))

\* line 75: df['PRICE'] = pd.to_numeric(df[2].apply(lambda x: x[1:]))
AuctionPrice(d3) ==
    IF ~HasCol(d3, Col2) THEN [df |-> d3, ret |-> Raised("KeyError")]
    ELSE LET prices == Column(d3, Col2)
             rest == [r \in DOMAIN prices |-> Str(PyFrom(prices[r].s, 1))]
         IN  IF \E r \in DOMAIN prices : prices[r].t # "str"
             THEN [df |-> d3, ret |-> Raised("TypeError")]
             ELSE IF \E r \in DOMAIN rest : ~CanNumeric(rest[r])
             THEN [df |-> d3, ret |-> Raised("ValueError")]
             ELSE AuctionExtract(SetCol(d3, cPRICE, "number",
                                        [r \in DOMAIN rest |-> ToNumeric(rest[r])]))

\* line 74: df['PICK'] = pd.to_numeric(df[0])
AuctionPick(d2) ==
    LET picks == Column(d2, Col0)
    IN  IF \E r \in DOMAIN picks : ~CanNumeric(picks[r])
        THEN [df |-> d2, ret |-> Raised("ValueError")]
        ELSE AuctionPrice(SetCol(d2, cPICK, "number",
                                 [r \in DOMAIN picks |-> ToNumeric(picks[r])]))

IsCarrier(r) == r.label = 0

\* League._formatAuctionTable: the frame object after the call, and the result
FormatAuctionTable(d) ==
    IF ~HasCol(d, Col0) \/ ~HasRow(d, 0)
    THEN [df |-> d, ret |-> Raised("KeyError")]
    ELSE LET manager == CarrierCell(d)
         IN  AuctionPick(DropRows(SetCol(d, cMANAGER, DtypeOf(manager),
                                         [r \in 1..Len(d.rows) |-> manager]),
                                  IsCarrier))

\* League._formatDraftTable: its parameter is named html and its first
\* statement reads df, which is bound nowhere
FormatDraftTable(d) == [df |-> d, ret |-> Raised("NameError")]

\* League._formatDraft
FormatDraft(d, dType) ==
    IF dType = "Auction Draft" THEN FormatAuctionTable(d)
    ELSE IF dType = "Snake Draft" \/ dType = "Offline Draft" \/ dType = "Autopick Draft"
    THEN FormatDraftTable(d)
    ELSE [df |-> d, ret |-> PyNone]

(***************************************************************************)
(* League._downloadDraftTable.                                             *)
(***************************************************************************)
\* self.teamDict: team id -> upper-cased team name
TeamDict == [id \in {"1"} |-> <<"A", "L">>]

\* pd.concat([a, b]): None is dropped; the rows of b follow those of a, under
\* the columns of a and then the columns only b has (absent cells are NaN)
Concat(a, b) ==
    IF b.kind = "None" THEN a
    ELSE LET NotInA(x) == ~HasCol(a, x)
             new == KeepIdx(b.cols, NotInA)
             cols == a.cols \o Pick(b.cols, new)
             Widen(d, r) ==
                 [label |-> r.label,
                  cells |-> [c \in 1..Len(cols) |->
                               IF HasCol(d, cols[c])
                               THEN r.cells[ColIdx(d, cols[c])] ELSE NaN]]
         IN  Frame(cols,
                   [c \in 1..Len(cols) |->
                      IF HasCol(a, cols[c]) /\ Len(a.rows) > 0
                      THEN (IF HasCol(b, cols[c])
                               /\ b.dtypes[ColIdx(b, cols[c])] = "object"
                            THEN "object" ELSE a.dtypes[ColIdx(a, cols[c])])
                      ELSE IF HasCol(b, cols[c]) THEN b.dtypes[ColIdx(b, cols[c])]
                      ELSE a.dtypes[ColIdx(a, cols[c])]],
                   [r \in 1..Len(a.rows) |-> Widen(a, a.rows[r])]
                   \o [r \in 1..Len(b.rows) |-> Widen(b, b.rows[r])])

\* the loop of lines 119-122; an exception of _formatDraft ends it
RECURSIVE ConcatDraft(_, _, _)
ConcatStep(rest, dType, acc, r) ==
    IF r.kind = "raised" THEN r ELSE ConcatDraft(rest, dType, Concat(acc, r))

ConcatDraft(tables, dType, acc) ==
    IF tables = <<>> THEN acc
    ELSE ConcatStep(Tail(tables), dType, acc, FormatDraft(tables[1], dType).ret)

\* lines 123-127: the rows of one team, or the whole table
FilterByTeam(all, tid) ==
    IF ~IsFrame(all) \/ tid = "" THEN all
    ELSE IF ~HasCol(all, cMANAGER) THEN Raised("KeyError")
    ELSE IF all.dtypes[ColIdx(all, cMANAGER)] # "object" THEN Raised("AttributeError")
    ELSE LET c == ColIdx(all, cMANAGER)
             Other(r) == ~(r.cells[c].t = "str" /\ Upper(r.cells[c].s) = TeamDict[tid])
         IN  DropRows(all, Other)

DownloadDraftTable(tid, dType, tables) ==
    IF tid # "" /\ tid \notin DOMAIN TeamDict THEN Raised("AssertionError")
    ELSE FilterByTeam(ConcatDraft(tables, dType, EmptyFrame), tid)

(***************************************************************************)
(* Draft specification: one block of the "Draft Recap" page formatted, and *)
(* formatted once more; or a page of such blocks downloaded.               *)
(***************************************************************************)
ManagerAl == <<"A", "l">>

Round1 == <<"R", "O", "U", "N", "D", " ", "1">>

PlayerPlain == <<"J", "o", ",", " ", "N", "Y", NBSP, "O", "F">>

PlayerKept == PlayerPlain \o KeeperMark

PlayerBad == <<"J", "o">>

Price7 == <<"$", "7">>

ManagerBo == <<"B", "o">>

\* the first row of a block: the manager name or the round label in the
\* first cell, or an empty first cell and the manager name in the second
Carriers == {<<Str(ManagerAl), NaN, NaN>>,
             <<Str(Round1), NaN, NaN>>,
             <<Str(<<>>), Str(ManagerAl), NaN>>}

PickRows == {<<p, t>> : p \in {Str(PlayerPlain), Str(PlayerKept), Str(PlayerBad)},
                        t \in {Str(Price7), Str(ManagerBo)}}

DraftTypes == {"Auction Draft", "Snake Draft", "Offline Draft", "Autopick Draft",
               "Keeper Draft"}

\* pd.read_html(...)[0] of a block: a column holding a string is object
ReadBlock(carrier, picks) ==
    LET rows == <<[label |-> 0, cells |-> carrier]>>
                \o [i \in 1..Len(picks) |->
                      [label |-> i,
                       cells |-> <<Str(Digits(i)), picks[i][1], picks[i][2]>>]]
    IN  Frame(<<Col0, Col1, Col2>>,
              [c \in 1..3 |->
                 IF \E r \in DOMAIN rows : rows[r].cells[c].t = "str"
                 THEN "object" ELSE "number"],
              rows)

InitDraft ==
    /\ pc = "start"
    /\ \E carrier \in Carriers, picks \in SeqsUpTo(PickRows, MaxPicks) :
          raw = ReadBlock(carrier, picks)
    /\ df = raw
    /\ draftType \in DraftTypes
    /\ teamId \in {"", "1", "9"}
    /\ \E k \in 0..MaxDraftTables : draftTables = [i \in 1..k |-> raw]
    /\ draftTable = NoFrame
    /\ table = NoTable
    /\ subHead1 = <<>>
    /\ subHeadRow = <<>>
    /\ noname = FirstNoname
    /\ columns = <<>>
    /\ ret1 = NoFrame
    /\ ret2 = NoFrame

\* df = self._formatDraft(dfTable, draftType)
CallFormatDraft ==
    /\ pc = "start"
    /\ LET r == FormatDraft(df, draftType) IN
        /\ df' = r.df
        /\ ret1' = r.ret
    /\ pc' = "formatted1"
    /\ UNCHANGED <<table, hdrVars, raw, ret2, draftVars>>

\* self._formatDraft(dfTable, draftType) again, on the same frame object
CallFormatDraftAgain ==
    /\ pc = "formatted1"
    /\ LET r == FormatDraft(df, draftType) IN
        /\ df' = r.df
        /\ ret2' = r.ret
    /\ pc' = "formatted2"
    /\ UNCHANGED <<table, hdrVars, raw, ret1, draftVars>>

\* self._downloadDraftTable(teamId)
CallDownloadDraftTable ==
    /\ pc = "start"
    /\ draftTable' = DownloadDraftTable(teamId, draftType, draftTables)
    /\ pc' = "downloaded"
    /\ UNCHANGED <<table, hdrVars, df, raw, ret1, ret2, draftType, teamId, draftTables>>

NextDraft ==
    \/ CallFormatDraft
    \/ CallFormatDraftAgain
    \/ CallDownloadDraftTable

SpecDraft == InitDraft /\ [][NextDraft]_vars

(***************************************************************************)
(* Properties of draft formatting and draft assembly.                      *)
(***************************************************************************)
SupportedDraftTypes ==
    {"Auction Draft", "Snake Draft", "Offline Draft", "Autopick Draft"}

SnakeDraftTypes == {"Snake Draft", "Offline Draft", "Autopick Draft"}

\* the cell of a result row under a named column
CellOf(d, r, name) == d.rows[r].cells[ColIdx(d, name)]

\* C2: a formatter called twice in sequence on the same raw table returns the
\* same normalized content both times.
C2_SecondCallSame == (pc = "formatted2" /\ IsFrame(ret1)) => ret2 = ret1

\* C3: draft assembly with a draft type outside the four supported ones ends
\* in an error raised to the caller, never in a table.
C3_UnsupportedTypeRaises ==
    (pc = "downloaded" /\ draftType \notin SupportedDraftTypes
        /\ draftTables # <<>>
        /\ (teamId = "" \/ teamId \in DOMAIN TeamDict))
    => draftTable.kind = "raised"

AuctionFormatted ==
    pc = "formatted1" /\ draftType = "Auction Draft" /\ IsFrame(ret1)

AuctionShape ==
    /\ Len(ret1.rows) = Len(raw.rows) - 1
    /\ \A r \in DOMAIN ret1.rows : ret1.rows[r].label # 0
    /\ ret1.cols = AuctionCols

\* C7 as stated: for a block whose first row is ["", MANAGER_X, ...], every
\* output row has MANAGER = MANAGER_X, the carrier row is gone and the columns
\* are MANAGER, PLAYER, PICK, TEAM, POS, PRICE, KEEPER.
C7_ManagerFromSecondCell ==
    (AuctionFormatted /\ raw.rows[1].cells[1] = Str(<<>>)
        /\ raw.rows[1].cells[2].t = "str")
    => /\ \A r \in DOMAIN ret1.rows : CellOf(ret1, r, cMANAGER) = raw.rows[1].cells[2]
       /\ AuctionShape

\* C7 as amended: when auction formatting returns a table for a block, every
\* output row has MANAGER = the first cell of the block's first row, the
\* carrier row is gone (output rows = input rows - 1) and the columns are
\* MANAGER, PLAYER, PICK, TEAM, POS, PRICE, KEEPER in that order.
C7_ManagerFromFirstCell ==
    AuctionFormatted
    => /\ \A r \in DOMAIN ret1.rows : CellOf(ret1, r, cMANAGER) = raw.rows[1].cells[1]
       /\ AuctionShape

\* a block of a named manager and two picks, formatted
C7_Witness ==
    /\ AuctionFormatted
    /\ raw.rows[1].cells[1] = Str(ManagerAl)
    /\ Len(ret1.rows) = 2
    /\ CellOf(ret1, 2, cMANAGER) = Str(ManagerAl)

\* C8: for a block whose first cell is "ROUND N", snake/offline/autopick
\* formatting returns a table whose rows all have ROUND = N, without the
\* carrier row, MANAGER being the third raw column, under the columns ROUND,
\* PICK, MANAGER, PLAYER, TEAM, POS, KEEPER.
C8_SnakeBlockFormatted ==
    (pc = "formatted1" /\ draftType \in SnakeDraftTypes
        /\ raw.rows[1].cells[1] = Str(Round1))
    => /\ IsFrame(ret1)
       /\ ret1.cols = DraftCols
       /\ Len(ret1.rows) = Len(raw.rows) - 1
       /\ \A r \in DOMAIN ret1.rows :
             /\ CellOf(ret1, r, cROUND) = Str(<<"1">>)
             /\ CellOf(ret1, r, cMANAGER) = raw.rows[r + 1].cells[3]

\* The draft recipe's part of C4: a pick whose composite cell does not match
\* has NaN in PLAYER, TEAM, POS and KEEPER, every other pick has all four,
\* and the auction formatter's outcome does not depend on which picks match.
DraftRowIsolation ==
    AuctionFormatted
    => \A r \in DOMAIN ret1.rows :
          LET cell == raw.rows[r + 1].cells[2] IN
          IF cell = Str(PlayerBad)
          THEN \A k \in 1..4 : CellOf(ret1, r, ExtractNames[k]) = NaN
          ELSE /\ CellOf(ret1, r, cPLAYER) = Str(<<"J", "o">>)
               /\ CellOf(ret1, r, cTEAM) = Str(<<"N", "Y">>)
               /\ CellOf(ret1, r, cPOS) = Str(<<"O", "F">>)
               /\ CellOf(ret1, r, cKEEPER) = Bool(cell = Str(PlayerKept))

(***************************************************************************)
(* League._formatActiveStatsTable.                                         *)
(* The Player/Team/Position/DTD pattern, matched from the start of s:      *)
(*   ^(?P<PLAYER>.+?), (?P<TEAM>\w+)\xa0(?P<POS>.+?)(?P<DTD>$|\xa0\xa0DTD$) *)
(***************************************************************************)
DTDMark == <<NBSP, NBSP, "D", "T", "D">>

EndsWith(s, m) == Len(s) >= Len(m) /\ SubSeq(s, Len(s) - Len(m) + 1, Len(s)) = m

\* the end of the shortest POS that starts at p: before a final DTD marker
\* when that leaves POS a character, else the end of the string
StatsPosEnd(s, p) ==
    IF EndsWith(s, DTDMark) /\ Len(s) - Len(DTDMark) >= p
    THEN Len(s) - Len(DTDMark) ELSE Len(s)

\* TEAM being s[t..e], and the rest of the pattern
StatsTeamTail(s, t, e) ==
    /\ e >= t
    /\ e + 1 <= Len(s) /\ s[e + 1] = NBSP
    /\ e + 2 <= Len(s)

StatsTail(s, a) ==
    /\ a + 1 <= Len(s) /\ s[a] = "," /\ s[a + 1] = " "
    /\ StatsTeamTail(s, a + 2, WordRunEnd(s, a + 2))

StatsCommas(s) == {a \in 2..Len(s) : StatsTail(s, a)}

StatsGroups(s, t, e, f) ==
    <<Str(SubSeq(s, 1, t - 3)), Str(SubSeq(s, t, e)),
      Str(SubSeq(s, e + 2, f)), Str(SubSeq(s, f + 1, Len(s)))>>

StatsGroupsFrom(s, t, e) == StatsGroups(s, t, e, StatsPosEnd(s, e + 2))

StatsGroupsAt(s, a) == StatsGroupsFrom(s, a + 2, WordRunEnd(s, a + 2))

StatsMatch(s, commas) ==
    IF commas = {} THEN NoMatch ELSE StatsGroupsAt(s, FirstComma(commas))

\* the four groups of the match in a cell, or four NaN
StatsExtract(v) ==
    IF v.t # "str" THEN NoMatch ELSE StatsMatch(v.s, StatsCommas(v.s))

\* s.split(', ')
RECURSIVE SplitFrom(_, _, _)
SplitFrom(s, i, part) ==
    IF i > Len(s) THEN <<part>>
    ELSE IF i + 1 <= Len(s) /\ s[i] = "," /\ s[i + 1] = " "
    THEN <<part>> \o SplitFrom(s, i + 2, <<>>)
    ELSE SplitFrom(s, i + 1, Append(part, s[i]))

SplitCommaSpace(s) == SplitFrom(s, 1, <<>>)

UnnamedPrefix == <<"U", "n", "n", "a", "m", "e", "d", ":", " ">>

\* re.search('Unnamed: \d+', s)
SearchUnnamed(s) ==
    \E i \in 1..Len(s) :
        /\ i + Len(UnnamedPrefix) <= Len(s)
        /\ SubSeq(s, i, i + Len(UnnamedPrefix) - 1) = UnnamedPrefix
        /\ IsDigit(s[i + Len(UnnamedPrefix)])

StatsKeep(x) == ~SearchUnnamed(x.s)

cPLAYERTEAMPOS ==
    StrName(<<"P", "L", "A", "Y", "E", "R", ",", " ", "T", "E", "A", "M", " ",
              "P", "O", "S">>)

cDTD == StrName(<<"D", "T", "D">>)

StatsNames == <<cPLAYER, cTEAM, cPOS, cDTD>>

Placeholder == Str(<<"-", "-">>)

\* .replace(to_replace='--', value=np.nan) of one cell
ReplacePlaceholder(v) == IF v = Placeholder THEN NaN ELSE v

\* lines 136-138: the rows whose third column is '--', every '--' made NaN
ReplaceInFlaggedRows(d) ==
    [d EXCEPT !.rows =
        [p \in 1..Len(d.rows) |->
            IF \E q \in DOMAIN d.rows :
                  d.rows[q].cells[3] = Placeholder /\ d.rows[q].label = p - 1
            THEN [d.rows[p] EXCEPT !.cells =
                      [c \in DOMAIN @ |-> ReplacePlaceholder(@[c])]]
            ELSE d.rows[p]]]

\* a column all of whose values parse
NumericCol(d, c) == \A r \in DOMAIN d.rows : CanNumeric(d.rows[r].cells[c])

\* df.apply(pd.to_numeric, errors='ignore'): a column all of whose values
\* parse becomes numeric, any other column is left as it is
ToNumericIgnore(d) ==
    [d EXCEPT !.dtypes = [c \in DOMAIN @ |-> IF NumericCol(d, c) THEN "number" ELSE @[c]],
              !.rows = [r \in DOMAIN @ |->
                          [@[r] EXCEPT !.cells =
                              [c \in DOMAIN @ |->
                                  IF NumericCol(d, c) THEN ToNumeric(@[c]) ELSE @[c]]]]]

\* line 144: df['POS'] = df['POS'].apply(lambda x: x.split(', ')), then line 146
StatsSplitPos(d) ==
    LET pos == Column(d, cPOS)
    IN  IF \E r \in DOMAIN pos : pos[r].t # "str" THEN Raised("AttributeError")
        ELSE SelectCols(SetCol(d, cPOS, "object",
                               [r \in DOMAIN pos |-> List(SplitCommaSpace(pos[r].s))]),
                        StatsKeep)

\* lines 140-143, on the frame to_numeric returned
StatsExtractJoin(d) ==
    IF ~HasCol(d, cPLAYERTEAMPOS) THEN Raised("KeyError")
    ELSE IF d.dtypes[ColIdx(d, cPLAYERTEAMPOS)] # "object" THEN Raised("AttributeError")
    ELSE IF \E k \in 1..4 : HasCol(d, StatsNames[k]) THEN Raised("ValueError")
    ELSE StatsSplitPos(DropCols(JoinExtract(d, StatsNames,
                                   [r \in 1..Len(d.rows) |->
                                      StatsExtract(d.rows[r].cells[
                                          ColIdx(d, cPLAYERTEAMPOS)])]),
                                <<cPLAYERTEAMPOS>>))

\* lines 135-147, on the frame without its last row
StatsReplace(d1) ==
    IF Len(d1.cols) < 3 THEN [df |-> d1, ret |-> Raised("IndexError")]
    ELSE IF d1.dtypes[3] = "object"
    THEN [df |-> ReplaceInFlaggedRows(d1),
          ret |-> StatsExtractJoin(ToNumericIgnore(ReplaceInFlaggedRows(d1)))]
    ELSE [df |-> d1, ret |-> StatsExtractJoin(ToNumericIgnore(d1))]

\* League._formatActiveStatsTable: the frame object after the call, and the result
FormatActiveStatsTable(d) ==
    IF ~HasRow(d, Len(d.rows) - 1) THEN [df |-> d, ret |-> Raised("ValueError")]
    ELSE LET IsLast(r) == r.label = Len(d.rows) - 1
         IN  StatsReplace(DropRows(d, IsLast))

(***************************************************************************)
(* Active-stats specification: a table of player rows and a footer row     *)
(* formatted, and formatted once more.                                     *)
(***************************************************************************)
StatsPlain == <<"J", "o", ",", " ", "N", "Y", NBSP, "O", "F">>

StatsMulti == <<"J", "o", ",", " ", "N", "Y", NBSP, "1", "B", ",", " ", "O", "F">>
              \o DTDMark

StatsBad == <<"J", "o">>

cUnnamed1 == StrName(UnnamedPrefix \o <<"1">>)

cAB == StrName(<<"A", "B">>)

cH == StrName(<<"H">>)

StatsCols == <<cPLAYERTEAMPOS, cUnnamed1, cAB, cH>>

PlayerRows ==
    {<<Str(p), NaN, ab, h>> : p \in {StatsPlain, StatsMulti, StatsBad},
                              ab \in {Str(<<"5">>), Placeholder},
                              h \in {Str(<<"3">>), Placeholder}}

FooterRow == <<Str(<<"T", "O", "T", "A", "L", "S">>), NaN, Str(<<"9">>), Str(<<"6">>)>>

\* pd.read_html(htmlStr, header=1)[0]: a column all of whose text parses is
\* numeric, any other column holds its text
ReadStats(players) ==
    ToNumericIgnore(
        Frame(StatsCols, [c \in 1..4 |-> "object"],
              [r \in 1..(Len(players) + 1) |->
                 [label |-> r - 1,
                  cells |-> IF r <= Len(players) THEN players[r] ELSE FooterRow]]))

InitStats ==
    /\ pc = "start"
    /\ \E players \in SeqsUpTo(PlayerRows, MaxPlayers) : raw = ReadStats(players)
    /\ df = raw
    /\ draftType = ""
    /\ teamId = ""
    /\ draftTables = <<>>
    /\ draftTable = NoFrame
    /\ table = NoTable
    /\ subHead1 = <<>>
    /\ subHeadRow = <<>>
    /\ noname = FirstNoname
    /\ columns = <<>>
    /\ ret1 = NoFrame
    /\ ret2 = NoFrame

\* df = self._formatActiveStatsTable(dfTable)
CallFormatActiveStats ==
    /\ pc = "start"
    /\ LET r == FormatActiveStatsTable(df) IN
        /\ df' = r.df
        /\ ret1' = r.ret
    /\ pc' = "formatted1"
    /\ UNCHANGED <<table, hdrVars, raw, ret2, draftVars>>

\* self._formatActiveStatsTable(dfTable) again, on the same frame object
CallFormatActiveStatsAgain ==
    /\ pc = "formatted1"
    /\ LET r == FormatActiveStatsTable(df) IN
        /\ df' = r.df
        /\ ret2' = r.ret
    /\ pc' = "formatted2"
    /\ UNCHANGED <<table, hdrVars, raw, ret1, draftVars>>

NextStats ==
    \/ CallFormatActiveStats
    \/ CallFormatActiveStatsAgain

SpecStats == InitStats /\ [][NextStats]_vars

(***************************************************************************)
(* Properties of active-stats formatting.                                  *)
(***************************************************************************)
\* the player rows of the raw table: every row but the footer
StatsPlayerRows == 1..(Len(raw.rows) - 1)

StatsUnmatched(r) == StatsExtract(raw.rows[r].cells[1]) = NoMatch

\* the derived values of one player row in the result
StatsDerived(r) == [k \in 1..4 |-> CellOf(ret1, r, StatsNames[k])]

StatsExpected(r) ==
    LET g == StatsExtract(raw.rows[r].cells[1])
    IN  IF g = NoMatch THEN NoMatch
        ELSE <<g[1], g[2], List(SplitCommaSpace(g[3].s)), g[4]>>

\* C4 (ActiveStats recipe): when a player row's composite field does not match
\* the pattern, formatting still returns a table, the unmatched row has a
\* missing value in every derived column, and every other row has the values
\* extracted from its own field.
C4_UnmatchedRowIsolated ==
    (pc = "formatted1" /\ \E r \in StatsPlayerRows : StatsUnmatched(r))
        => /\ IsFrame(ret1)
           /\ Len(ret1.rows) = Len(raw.rows) - 1
           /\ \A r \in StatsPlayerRows : StatsDerived(r) = StatsExpected(r)

\* a raw stat column whose player cells are all numeric text or "--"
NumericButPlaceholders(c) ==
    \A r \in StatsPlayerRows :
        CanNumeric(raw.rows[r].cells[c]) \/ raw.rows[r].cells[c] = Placeholder

\* C5: after active-stats formatting returns a table, no cell of it holds the
\* placeholder "--", and every stat column whose player cells were all numeric
\* text or "--" is numeric.
C5_NoPlaceholderSurvives ==
    (pc = "formatted1" /\ IsFrame(ret1))
        => /\ \A r \in DOMAIN ret1.rows : \A c \in DOMAIN ret1.cols :
                 ret1.rows[r].cells[c] # Placeholder
           /\ \A c \in 3..4 :
                 NumericButPlaceholders(c)
                     => /\ HasCol(ret1, raw.cols[c])
                        /\ ret1.dtypes[ColIdx(ret1, raw.cols[c])] = "number"

(***************************************************************************)
(* Team._formatTransactionTable.  A DETAIL text is held as the sequence of *)
(* its clauses "<who> <verb> <player>, <team> <pos> to/from <dest>"; the   *)
(* four findall patterns pick clauses by verb and destination and return   *)
(* one tuple of groups per clause, in order.                               *)
(***************************************************************************)
Clause(verb, who, player, dest) ==
    [verb |-> verb, who |-> who, player |-> player, dest |-> dest]

Detail(clauses) == [t |-> "str", s |-> <<>>, n |-> 0, l |-> clauses]

IsWaiverDest(c) == c.dest \in {"Waivers", "Free Agency"}

Groups3(c) == <<c.who, c.player, c.dest>>

\* '(\w+) dropped (.+?), \w+ \w+ to (Waivers|Free Agency)'
MatchesDropStr(c) == c.verb = "dropped" /\ IsWaiverDest(c)

\* '(\w+) added (.+?), \w+ \w+ from (Waivers|Free Agency)'
MatchesAddStr(c) == c.verb = "added" /\ IsWaiverDest(c)

\* '(\w+) traded (.+?), \w+ \w+ to (\w+)'
MatchesTradeStr(c) == c.verb = "traded"

\* the two alternatives of addDropStr: six groups, three of them empty
MatchesAddDropStr(c) == MatchesDropStr(c) \/ MatchesAddStr(c)

AddDropGroups(c) ==
    IF MatchesDropStr(c) THEN Groups3(c) \o <<"", "", "">>
    ELSE <<"", "", "">> \o Groups3(c)

FindAllAddDrop(clauses) ==
    [i \in 1..Len(SelectSeq(clauses, MatchesAddDropStr)) |->
        AddDropGroups(SelectSeq(clauses, MatchesAddDropStr)[i])]

FindAllAdd(clauses) ==
    [i \in 1..Len(SelectSeq(clauses, MatchesAddStr)) |->
        Groups3(SelectSeq(clauses, MatchesAddStr)[i])]

FindAllDrop(clauses) ==
    [i \in 1..Len(SelectSeq(clauses, MatchesDropStr)) |->
        Groups3(SelectSeq(clauses, MatchesDropStr)[i])]

FindAllTrade(clauses) ==
    [i \in 1..Len(SelectSeq(clauses, MatchesTradeStr)) |->
        Groups3(SelectSeq(clauses, MatchesTradeStr)[i])]

\* t[::-1]
Reverse(t) == [k \in 1..Len(t) |-> t[Len(t) - k + 1]]

\* t[:stop:-1]
RevDownTo(t, stop) == [k \in 1..Max(Len(t) - 1 - stop, 0) |-> t[Len(t) - k + 1]]

\* lambda x: [x[0][:3], x[1][:3:-1]]
AddDropApply(x) == <<PyTo(x[1], 3), RevDownTo(x[2], 3)>>

\* lambda x: [x[0][::-1]]
AddApply(x) == <<Reverse(x[1])>>

TransactionPrefix ==
    <<"T", "r", "a", "n", "s", "a", "c", "t", "i", "o", "n", NBSP, NBSP>>

addKey == TransactionPrefix \o <<"A", "d", "d">>

addDropKey == addKey \o <<"/", "D", "r", "o", "p">>

dropKey == TransactionPrefix \o <<"D", "r", "o", "p">>

tradeKey ==
    TransactionPrefix \o <<"T", "r", "a", "d", "e", " ",
                           "P", "r", "o", "c", "e", "s", "s", "e", "d">>

\* Series.str.match(key): re.match, the key found at the start of the value
StrMatch(key, v) ==
    v.t = "str" /\ Len(v.s) >= Len(key) /\ SubSeq(v.s, 1, Len(key)) = key

cDATE == StrName(<<"D", "A", "T", "E">>)

cTYPE == StrName(<<"T", "Y", "P", "E">>)

cDETAIL == StrName(<<"D", "E", "T", "A", "I", "L">>)

cACTION == StrName(<<"A", "C", "T", "I", "O", "N">>)

cTRANSACTION ==
    StrName(<<"T", "R", "A", "N", "S", "A", "C", "T", "I", "O", "N">>)

\* df[df['TYPE'].str.match(key)]['DETAIL']: the DETAIL of the rows whose TYPE
\* the key selects, under their labels
SelectDetail(d, key) ==
    LET Sel(r) == StrMatch(key, r.cells[ColIdx(d, cTYPE)])
    IN  [i \in 1..Len(SelectSeq(d.rows, Sel)) |->
            [label |-> SelectSeq(d.rows, Sel)[i].label,
             val |-> SelectSeq(d.rows, Sel)[i].cells[ColIdx(d, cDETAIL)].l]]

addDropFound(d) ==
    [i \in 1..Len(SelectDetail(d, addDropKey)) |->
        [SelectDetail(d, addDropKey)[i] EXCEPT !.val = FindAllAddDrop(@)]]

addFound(d) ==
    [i \in 1..Len(SelectDetail(d, addKey)) |->
        [SelectDetail(d, addKey)[i] EXCEPT !.val = FindAllAdd(@)]]

addDrop(d) ==
    [i \in 1..Len(addDropFound(d)) |->
        [addDropFound(d)[i] EXCEPT !.val = AddDropApply(@)]]

add(d) ==
    [i \in 1..Len(addFound(d)) |-> [addFound(d)[i] EXCEPT !.val = AddApply(@)]]

drop(d) ==
    [i \in 1..Len(SelectDetail(d, dropKey)) |->
        [SelectDetail(d, dropKey)[i] EXCEPT !.val = FindAllDrop(@)]]

trade(d) ==
    [i \in 1..Len(SelectDetail(d, tradeKey)) |->
        [SelectDetail(d, tradeKey)[i] EXCEPT !.val = FindAllTrade(@)]]

\* pd.concat([addDrop, add, drop, trade]): the entries one after another,
\* each under the label of its row
transactions(d) == addDrop(d) \o add(d) \o drop(d) \o trade(d)

\* the rows df.join gives one row of df: one per entry under its label, or
\* one with NaN when there is none
JoinRow(row, ser) ==
    LET Mine(e) == e.label = row.label
    IN  IF SelectSeq(ser, Mine) = <<>>
        THEN <<[row EXCEPT !.cells = Append(@, NaN)]>>
        ELSE [k \in 1..Len(SelectSeq(ser, Mine)) |->
                [row EXCEPT !.cells = Append(@, List(SelectSeq(ser, Mine)[k].val))]]

\* df.join(transactions)
JoinTransactions(d, ser) ==
    Frame(d.cols \o <<cTRANSACTION>>, d.dtypes \o <<"object">>,
          Flatten([r \in 1..Len(d.rows) |-> JoinRow(d.rows[r], ser)]))

\* Team._formatTransactionTable, from the frame with its DATE and DETAIL set
FormatTransactionTable(d) ==
    IF \E i \in DOMAIN addDropFound(d) : Len(addDropFound(d)[i].val) < 2
    THEN Raised("IndexError")
    ELSE IF \E i \in DOMAIN addFound(d) : Len(addFound(d)[i].val) < 1
    THEN Raised("IndexError")
    ELSE JoinTransactions(d, transactions(d))

(***************************************************************************)
(* Transactions specification: a table of one or more rows formatted.      *)
(***************************************************************************)
Dropped == Clause("dropped", "Al", "Jo", "Waivers")

Added == Clause("added", "Al", "Ed", "Free Agency")

Traded == Clause("traded", "Al", "Jo", "Bo")

TxTypes == {addDropKey, addKey, dropKey, tradeKey}

TxDetails == {<<>>, <<Dropped>>, <<Added>>, <<Dropped, Added>>, <<Traded>>}

TxRows == {<<Str(<<"d">>), Str(ty), Detail(de), NaN>> : ty \in TxTypes, de \in TxDetails}

\* pd.read_html(htmlStr, header=1)[0] with DATE and DETAIL set from the cells
ReadTransactions(rows) ==
    Frame(<<cDATE, cTYPE, cDETAIL, cACTION>>,
          <<"object", "object", "object", "number">>,
          [r \in 1..Len(rows) |-> [label |-> r - 1, cells |-> rows[r]]])

InitTrans ==
    /\ pc = "start"
    /\ \E rows \in SeqsUpTo(TxRows, MaxTx) :
          rows # <<>> /\ raw = ReadTransactions(rows)
    /\ df = raw
    /\ draftType = ""
    /\ teamId = ""
    /\ draftTables = <<>>
    /\ draftTable = NoFrame
    /\ table = NoTable
    /\ subHead1 = <<>>
    /\ subHeadRow = <<>>
    /\ noname = FirstNoname
    /\ columns = <<>>
    /\ ret1 = NoFrame
    /\ ret2 = NoFrame

\* df = self._formatTransactionTable(htmlStr, tds)
CallFormatTransactionTable ==
    /\ pc = "start"
    /\ ret1' = FormatTransactionTable(df)
    /\ pc' = "formatted1"
    /\ UNCHANGED <<table, hdrVars, df, raw, ret2, draftVars>>

NextTrans == CallFormatTransactionTable

SpecTrans == InitTrans /\ [][NextTrans]_vars

(***************************************************************************)
(* Properties of transaction formatting.                                   *)
(***************************************************************************)
Keys == <<addDropKey, addKey, dropKey, tradeKey>>

\* the families whose key selects the row
Families(row) == {k \in 1..4 : StrMatch(Keys[k], row.cells[2])}

\* C6: when transaction formatting returns a table, every input row is
\* selected by at most one of the four families, and exactly one output row
\* (one TRANSACTION value) comes from it.
C6_FamiliesExclusive ==
    (pc = "formatted1" /\ IsFrame(ret1))
        => \A r \in DOMAIN raw.rows :
              /\ Cardinality(Families(raw.rows[r])) <= 1
              /\ Cardinality({q \in DOMAIN ret1.rows :
                                 ret1.rows[q].label = raw.rows[r].label}) = 1

====
